---- MODULE Spec2Model ----
(***************************************************************************)
(* Model of the retry-aware request execution engine of http-client-for-ts *)
(* (HttpClientImpl.send / executeRequest / executeWithRetry and the client *)
(* builder's retry configuration).                                         *)
(*                                                                         *)
(* JavaScript runs every handler to completion: the code between two       *)
(* awaits is one atomic step.  The suspension points of a send are the     *)
(* transport call (await fetch), the body read (await response.json() and  *)
(* the like) and the inter-attempt delay (await delay()).  Each action     *)
(* below is the code that runs from one suspension point to the next.      *)
(*                                                                         *)
(* null is modelled as 0 for numbers (both are falsy, and null coerces to  *)
(* 0 in a comparison) and as a record with present = FALSE for a request.  *)
(***************************************************************************)
EXTENDS Integers, Sequences, FiniteSets, TLC

\* ------------------------------------------------------------------ bounds
MaxAttemptsBound == 3  \* largest maxAttempts passed to retry()
ConcAttempts == 2      \* maxAttempts of the client that serves concurrent sends
MaxDelay == 1          \* largest delay (ms) passed to retry()
MaxTimeout == 1        \* largest timeout (ms) given to a request or client
MaxBuilds == 1         \* build() calls made on a request builder

\* the send() calls: send 1 alone, or sends 1 and 2 concurrently
Sends == {1, 2}

\* ------------------------------------------------------- config vocabulary
NEVER == "never"
ON_NETWORK_ERROR == "network"
ON_SERVER_ERROR == "server"
ALWAYS == "always"

RetryPolicy == {NEVER, ON_NETWORK_ERROR, ON_SERVER_ERROR, ALWAYS}

HTTP_NO_CONTENT == 204

\* isFalsy(value) for a number-or-null value (null is 0 here)
isFalsy(value) == value = 0

\* ------------------------------------------------------------ RetryConfig
RetryConfig(policy, maxAttempts, delay) ==
    [retryPolicy |-> policy, maxAttempts |-> maxAttempts, delay |-> delay]

\* RetryConfig.ensureRetryConfig: TRUE when no TypeError is thrown
ensureRetryConfig(policy, maxAttempts, delay) ==
    /\ ~(policy = "" \/ policy \notin RetryPolicy)
    /\ ~isFalsy(maxAttempts)
    /\ ~isFalsy(delay)
    /\ ~(maxAttempts <= 0)
    /\ ~(delay < 0)

\* the builder's constructor: new RetryConfig(RetryPolicy.NEVER, null, null)
DefaultRetry == RetryConfig(NEVER, 0, 0)

\* what an application passes to retry(policy, maxAttempts, delay)
RetryInputs == (RetryPolicy \cup {"", "bogus"}) \X (-1..MaxAttemptsBound) \X (-1..MaxDelay)

\* every retry configuration a built client can carry: the default, or one
\* that retry(policy, maxAttempts, delay) accepted
BuiltRetryConfigs ==
    {DefaultRetry} \cup
    {RetryConfig(x[1], x[2], x[3]) : x \in {y \in RetryInputs : ensureRetryConfig(y[1], y[2], y[3])}}

\* ----------------------------------------------------------------- errors
Err(cls, name, msg) == [cls |-> cls, name |-> name, msg |-> msg]

NoError == Err("none", "", "")
InvalidRequestErr == Err("TypeError", "TypeError", "Invalid request")
NullDerefErr == Err("TypeError", "TypeError", "Cannot read properties of null")
SerializationErr == Err("TypeError", "TypeError", "Failed to serialize request body")
DeserializationErr == Err("TypeError", "TypeError", "Failed to deserialize response body")
FetchFailedErr == Err("TypeError", "TypeError", "Failed to fetch")
AbortErr == Err("DOMException", "AbortError", "This operation was aborted")
OtherErr == Err("Error", "Error", "boom")
MaxRetryErr == Err("Error", "Error", "Max retry attempts reached")
ConnectTimeoutExc == Err("HttpConnectTimeoutException", "Error", "Connection could not be established with the server")
TimeoutExc == Err("HttpTimeoutException", "Error", "Request exceeded configured timeout duration")

\* the JavaScript class hierarchy: e instanceof cls
instanceOf(e, cls) ==
    CASE cls = "Error" -> e.cls \in {"Error", "TypeError", "DOMException", "HttpException",
                                      "HttpTimeoutException", "HttpConnectTimeoutException"}
      [] cls = "TypeError" -> e.cls = "TypeError"
      [] cls = "HttpTimeoutException" -> e.cls \in {"HttpTimeoutException", "HttpConnectTimeoutException"}
      [] cls = "HttpConnectTimeoutException" -> e.cls = "HttpConnectTimeoutException"
      [] OTHER -> FALSE

\* error.message.toLowerCase().includes('failed to fetch')
includesFailedToFetch(msg) == msg \in {"Failed to fetch", "failed to fetch"}

\* faulty variant: every TypeError counts as a network error
isNetworkError_anyTypeError(error) == instanceOf(error, "TypeError")

\* faulty variant: the message is compared without case folding
isNetworkError_caseSensitive(error) == instanceOf(error, "TypeError") /\ error.msg = "Failed to fetch"

isNetworkError(error) == instanceOf(error, "TypeError") /\ includesFailedToFetch(error.msg)

\* faulty variant: errors of the timeout classes count as aborts too
isTimeoutError_byClass(error) ==
    instanceOf(error, "Error") /\ (error.name = "AbortError" \/ instanceOf(error, "HttpTimeoutException"))

isTimeoutError(error) == instanceOf(error, "Error") /\ error.name = "AbortError"

handleRequestError(error) ==
    IF error.cls = "falsy" THEN Err("Error", "Error", "Unknown error occurred")
    ELSE IF isNetworkError(error) THEN ConnectTimeoutExc
    ELSE IF isTimeoutError(error) THEN TimeoutExc
    ELSE IF instanceOf(error, "Error") THEN error
    ELSE Err("Error", "Error", "An unexpected error has occurred")

\* ------------------------------------------------------- retry predicates
\* faulty variant: OnServerError also retries client errors (status >= 400)
shouldRetryForStatus_clientErrors(policy, status) ==
    CASE policy = NEVER -> FALSE
      [] policy = ON_SERVER_ERROR -> status >= 400
      [] policy = ALWAYS -> status # 200
      [] OTHER -> FALSE

\* faulty variant: Always retries error statuses only (status >= 400)
shouldRetryForStatus_errorsOnly(policy, status) ==
    CASE policy = NEVER -> FALSE
      [] policy = ON_SERVER_ERROR -> status >= 500
      [] policy = ALWAYS -> status >= 400
      [] OTHER -> FALSE

shouldRetryForStatus(policy, status) ==
    CASE policy = NEVER -> FALSE
      [] policy = ON_SERVER_ERROR -> status >= 500
      [] policy = ALWAYS -> status # 200
      [] OTHER -> FALSE

\* faulty variant: OnServerError retries connection failures too
shouldRetryForError_serverToo(policy, error) ==
    CASE policy = NEVER -> FALSE
      [] policy \in {ON_NETWORK_ERROR, ON_SERVER_ERROR, ALWAYS} -> instanceOf(error, "HttpConnectTimeoutException")
      [] OTHER -> FALSE

\* faulty variant: every HttpTimeoutException is retried, cancellations included
shouldRetryForError_anyTimeout(policy, error) ==
    CASE policy = NEVER -> FALSE
      [] policy \in {ON_NETWORK_ERROR, ALWAYS} -> instanceOf(error, "HttpTimeoutException")
      [] OTHER -> FALSE

\* faulty variant: no failure is ever retried
shouldRetryForError_never(policy, error) == FALSE

shouldRetryForError(policy, error) ==
    CASE policy = NEVER -> FALSE
      [] policy \in {ON_NETWORK_ERROR, ALWAYS} -> instanceOf(error, "HttpConnectTimeoutException")
      [] OTHER -> FALSE

\* faulty variant: send always takes the retry loop
usesRetryLoop_always(retry) == TRUE

\* send: this._retry.retryPolicy() !== RetryPolicy.NEVER
usesRetryLoop(retry) == retry.retryPolicy # NEVER

\* faulty variant: the loop admits one attempt too many (<= for <)
loopCondition_offByOne(attempts, retry) == attempts <= retry.maxAttempts

\* executeWithRetry: while (attempts < this._retry.maxAttempts())
\* faulty variant: the loop ends one attempt early
loopCondition_oneLess(attempts, retry) == attempts < retry.maxAttempts - 1

loopCondition(attempts, retry) == attempts < retry.maxAttempts

\* faulty variant: throw lastError, without the fallback error
exhaustedError_noFallback(lastError) == lastError

\* faulty variant: always throw the generic error, dropping lastError
exhaustedError_generic(lastError) == MaxRetryErr

\* executeWithRetry: throw lastError || new Error('Max retry attempts reached')
exhaustedError(lastError) == IF lastError # NoError THEN lastError ELSE MaxRetryErr

\* faulty variant: the delay does not use the configured duration
delayTimeout_zero(retry) == 0

\* faulty variant: the wait is twice the configured delay
delayTimeout_doubled(retry) == 2 * retry.delay

\* delay: setTimeout(resolve, this._retry.delay())
delayTimeout(retry) == retry.delay

\* faulty variant: delay() is called without await, the loop goes on at once
awaitDelay_notAwaited == "fetching"

\* executeWithRetry: await this.delay() suspends the loop until the delay ends
awaitDelay == "delaying"

\* --------------------------------------------------------------- requests
NullRequest == [present |-> FALSE, signal |-> "null", timeout |-> 0, body |-> "null"]

\* built requests: an optional own AbortSignal, an optional timeout, and a
\* body that is absent or an object JSON.stringify rejects (circular)
Requests == [present : {TRUE}, signal : {"null", "own"}, timeout : 0..MaxTimeout,
             body : {"null", "circular"}]

\* faulty variant: the null check is missing
isFalsyRequest_missing(request) == FALSE

\* send: isFalsy(request)
isFalsyRequest(request) == ~request.present

\* serializeBody / serializeToJson: the thrown error, or NoError
serializeBody(body) == IF body = "circular" THEN SerializationErr ELSE NoError

\* createRequestInit: the error it throws, or NoError
createRequestInit(request) ==
    IF ~request.present THEN NullDerefErr ELSE serializeBody(request.body)

\* faulty variant: the request's own signal is ignored
getAbortSignal_clientOnly(request) == "controller"

\* getAbortSignal: request.signal() || this._controller.signal
getAbortSignal(request) == IF request.signal # "null" THEN request.signal ELSE "controller"

\* the connect timeouts given to a client: none (null), or a duration longer
\* than every request timeout
ConnectTimeouts == {0} \cup ((MaxTimeout + 1)..(2 * MaxTimeout))

\* faulty variant: the client's connect timeout takes precedence
effectiveTimeout_clientFirst(request, connectTimeout) ==
    IF ~isFalsy(connectTimeout) THEN connectTimeout ELSE request.timeout

\* setupTimeout: request.timeout() || this._connectTimeout
effectiveTimeout(request, connectTimeout) ==
    IF ~isFalsy(request.timeout) THEN request.timeout ELSE connectTimeout

\* --------------------------------------------------------------- transport
\* what fetch resolves with: a status and a body that is a stream or null
Responses == {[status |-> 200, body |-> "stream"], [status |-> 200, body |-> "null"],
              [status |-> 204, body |-> "null"], [status |-> 404, body |-> "stream"],
              [status |-> 500, body |-> "stream"]}

\* what fetch rejects with when the signal has not fired
FetchRejections == {FetchFailedErr, OtherErr}

\* faulty variant: only the status tells that there is no content
hasNoContent_statusOnly(response) == response.status = HTTP_NO_CONTENT

hasNoContent(response) == response.status = HTTP_NO_CONTENT \/ response.body = "null"

NoCause == [src |-> "none", s |-> 0, a |-> 0]
ClientCause == [src |-> "abort", s |-> 0, a |-> 0]
OwnCause == [src |-> "own", s |-> 0, a |-> 0]
TimerCause(t) == [src |-> "timer", s |-> t.s, a |-> t.a]

NoTimer == [s |-> 0, a |-> 0, d |-> 0]
NoResult == [kind |-> "none", status |-> 0, err |-> NoError, attempt |-> 0]

\* ------------------------------------------------- request builder values
\* A URLSearchParams object is a sequence of <<name, value>> pairs; a search
\* string is the sequence of its key=value segments.
ParamNames == {"p"}
ParamValues == {"1"}
HeaderNames == {"x"}
HeaderValues == {"1"}
Addresses == {"http://a/", "http://b/"}

\* URLSearchParams.toString()
paramsToString(params) == [i \in 1..Len(params) |-> [key |-> params[i][1], val |-> params[i][2]]]

\* new URLSearchParams(search)
parseSearch(search) == [i \in 1..Len(search) |-> <<search[i].key, search[i].val>>]

\* URLSearchParams.set(name, value): the entry of that name gets the value, or
\* a new entry is appended
paramsSet(params, name, value) ==
    IF \E i \in 1..Len(params) : params[i][1] = name
    THEN [i \in 1..Len(params) |-> IF params[i][1] = name THEN <<name, value>> ELSE params[i]]
    ELSE Append(params, <<name, value>>)

\* Headers.set(name, value), on a Headers object that maps names to values
\* ("" where the header is absent)
headersSet(headers, name, value) == [headers EXCEPT ![name] = value]

\* the URL strings an application passes to url(): an address with or without
\* a query string; "" is a falsy argument
UrlInputs == [address : Addresses, search : {<<>>, <<[key |-> "p", val |-> "1"]>>}]
NullUrl == [address |-> "", search |-> <<>>]
BadUrl == [address |-> "no scheme", search |-> <<>>]

\* a Record<string, string> argument, its entries in Object.entries order;
\* null and undefined are the record that is not present
Record(entries) == [present |-> TRUE, entries |-> entries]
NullRecord == [present |-> FALSE, entries |-> <<>>]

\* the records given to headers(): none, an empty one, a valid one, and one
\* whose second entry has an empty value
HeaderRecords ==
    {NullRecord, Record(<<>>), Record(<<<<"x", "1">>>>), Record(<<<<"x", "1">>, <<"y", "">>>>)}

\* the records given to queryParams(), likewise
ParamRecords ==
    {NullRecord, Record(<<>>), Record(<<<<"p", "1">>>>), Record(<<<<"p", "1">>, <<"q", "">>>>)}

\* the HTTP methods
HttpMethod == {"GET", "POST", "PUT", "DELETE", "HEAD", "OPTIONS", "TRACE", "PATCH", "CONNECT"}

\* the arguments given to method(): a method, a missing one and a value
\* outside the enumeration
MethodInputs == {"POST", "", "get"}

\* ensureHeaders / ensureQueryParams: TRUE when no TypeError is thrown
ensureHeaders(name, value) == name # "" /\ value # ""
ensureQueryParams(name, value) == name # "" /\ value # ""

\* timeout(duration): TRUE when no TypeError is thrown
ensureTimeout(duration) == ~isFalsy(duration) /\ ~(duration <= 0)

VARIABLES
    client,      \* the built client: [retry, connectTimeout]
    controller,  \* the client's AbortController: [aborted, by]
    pc,          \* per send: idle, fetching, reading, delaying, done
    request,     \* per send: the request passed to send()
    attempts,    \* per send: executeWithRetry's attempts counter
    lastError,   \* per send: executeWithRetry's lastError
    timeoutId,   \* per send: executeRequest's timeoutId of the current attempt
    pending,     \* per send: status of the response whose body is being read
    timers,      \* armed setTimeout timers, each [s, a] = send and attempt
    ownAborted,  \* per send: the request's own AbortSignal has fired
    calls,       \* per send: number of fetch() invocations (history)
    delays,      \* per send: number of delay() awaits begun (history)
    armed,       \* per send: number of timers ever armed (history)
    history,     \* per send: outcomes of its completed attempts (history)
    result,      \* per send: what send() returned or raised
    atAbort,     \* per send: abort() was called while it was in flight on the client's signal (history)
    waits,       \* per send: the durations of the delay() awaits begun (history)
    builder,     \* the request builder's fields: [method, url, queryParams, timeout], object references and a number
    headersObj,  \* the Headers object the builder's constructor created
    paramsObj,   \* the URLSearchParams objects by reference: 0 from the constructor, others from url()
    urlObj,      \* the URL objects by reference, [address, search]
    reqs,        \* the requests build() returned: [req, built], built a history record
    threw,       \* whether the last builder call threw a TypeError
    cbuilder,    \* the client builder's fields: [connectTimeout, redirectPolicy, priority, retry]
    resp,        \* the transport response being deserialized: [status, contentType, body, bodyUsed]
    cpc,         \* deserializeBody's position: idle, reading, fallback, fallbackText, done
    reads,       \* the read operations invoked on the response, in order (history)
    decoded,     \* what deserializeBody returned or threw
    failure,     \* the value an attempt raised, handed to handleRequestError
    outcomes,    \* the results of the successive handleRequestError calls on it
    sentBody,    \* the request body given to serializeBody
    wire,        \* the payload serializeBody produced: [present, text]
    echoed,      \* the response that carries the payload back: [status, contentType, body, bodyUsed]
    received,    \* what deserializing that response gave
    cbCall       \* the last call on the client builder: [op, args, threw, before], before = its fields at the call

runVars == <<controller, pc, request, attempts, lastError, timeoutId, pending,
             timers, ownAborted, calls, delays, armed, history, result, atAbort, waits>>

sendVars == <<client, runVars>>

buildVars == <<builder, headersObj, paramsObj, urlObj, reqs, threw>>

clientBuilderVars == <<cbuilder, cbCall>>

codecVars == <<resp, cpc, reads, decoded>>

classifyVars == <<failure, outcomes>>

tripVars == <<sentBody, wire, echoed, received>>

vars == <<sendVars, buildVars, clientBuilderVars, codecVars, classifyVars, tripVars>>

\* a request body: absent (null), a string (a sequence of tokens), or a plain
\* object (a sequence of fields <<key, value>>)
Body(type, text, fields) == [type |-> type, text |-> text, fields |-> fields]
AbsentBody == Body("absent", <<>>, <<>>)
NoPayload == [present |-> FALSE, text |-> <<>>]
NotReceived == [kind |-> "none", body |-> AbsentBody]

NoResponse == [status |-> 0, contentType |-> <<>>, body |-> "null", bodyUsed |-> FALSE]
NoValue == [kind |-> "none", op |-> "", of |-> "", mimeType |-> <<>>, cause |-> ""]

\* the redirect and priority enumerations
Redirect == {"follow", "error", "manual"}
Priority == {"auto", "high", "low"}

\* the client builder's constructor
NewClientBuilder ==
    [connectTimeout |-> 0, redirectPolicy |-> "follow", priority |-> "auto", retry |-> DefaultRetry]

NoCall == [op |-> "none", args |-> <<>>, threw |-> FALSE, before |-> NewClientBuilder]

NoUrl == [address |-> "", search |-> <<>>]

\* references to the objects url() creates: each built request can keep one
\* pair alive and the builder holds one more
Refs == 1..(MaxBuilds + 1)

Init ==
    /\ client \in [retry : BuiltRetryConfigs, connectTimeout : ConnectTimeouts]
    /\ controller = [aborted |-> FALSE, by |-> NoCause]
    /\ pc = [s \in Sends |-> "idle"]
    /\ request = [s \in Sends |-> NullRequest]
    /\ attempts = [s \in Sends |-> 0]
    /\ lastError = [s \in Sends |-> NoError]
    /\ timeoutId = [s \in Sends |-> NoTimer]
    /\ pending = [s \in Sends |-> 0]
    /\ timers = {}
    /\ ownAborted = [s \in Sends |-> FALSE]
    /\ calls = [s \in Sends |-> 0]
    /\ delays = [s \in Sends |-> 0]
    /\ armed = [s \in Sends |-> 0]
    /\ history = [s \in Sends |-> <<>>]
    /\ result = [s \in Sends |-> NoResult]
    /\ atAbort = [s \in Sends |-> FALSE]
    /\ waits = [s \in Sends |-> <<>>]
    /\ builder = [method |-> "GET", url |-> 0, queryParams |-> 0, timeout |-> 0]
    /\ headersObj = [n \in HeaderNames |-> ""]
    /\ paramsObj = [k \in {0} \cup Refs |-> <<>>]
    /\ urlObj = [k \in Refs |-> NoUrl]
    /\ reqs = <<>>
    /\ threw = FALSE
    /\ cbuilder = NewClientBuilder
    /\ cbCall = NoCall
    /\ resp = NoResponse
    /\ cpc = "idle"
    /\ reads = <<>>
    /\ decoded = NoValue
    /\ failure = NoError
    /\ outcomes = <<>>
    /\ sentBody = AbsentBody
    /\ wire = NoPayload
    /\ echoed = NoResponse
    /\ received = NotReceived

\* the signal the attempt of send s listens to has fired
\* faulty variant: the client's signal never reads as aborted
signalAborted_ownOnly(s) == ownAborted[s]

signalAborted(s) ==
    IF getAbortSignal(request[s]) = "controller" THEN controller.aborted ELSE ownAborted[s]

abortCause(s) ==
    IF getAbortSignal(request[s]) = "controller" THEN controller.by ELSE OwnCause

RespOutcome(status, att) == [kind |-> "resp", status |-> status, err |-> NoError, cause |-> NoCause, attempt |-> att]
ErrOutcome(err, cause, att) == [kind |-> "err", status |-> 0, err |-> err, cause |-> cause, attempt |-> att]

Returned(status, att) == [kind |-> "response", status |-> status, err |-> NoError, attempt |-> att]
Raised(err) == [kind |-> "error", status |-> 0, err |-> err, attempt |-> 0]

\* -------------------------------------------------------------------------
\* The code that runs once executeRequest has returned a response with the
\* given status: send returns it (policy Never), or executeWithRetry
\* consults shouldRetryForStatus and either counts and delays or returns.
AttemptReturned(s, status) ==
    LET retry == client.retry
        att == calls[s]
    IN /\ history' = [history EXCEPT ![s] = Append(@, RespOutcome(status, att))]
       /\ lastError' = lastError
       /\ IF usesRetryLoop(retry) /\ shouldRetryForStatus(retry.retryPolicy, status)
          THEN /\ attempts' = [attempts EXCEPT ![s] = @ + 1]
               /\ delays' = [delays EXCEPT ![s] = @ + 1]
               /\ waits' = [waits EXCEPT ![s] = Append(@, delayTimeout(retry))]
               /\ pc' = [pc EXCEPT ![s] = awaitDelay]
               /\ result' = result
          ELSE /\ pc' = [pc EXCEPT ![s] = "done"]
               /\ result' = [result EXCEPT ![s] = Returned(status, att)]
               /\ UNCHANGED <<attempts, delays, waits>>

\* The code that runs once executeRequest's try block has threw: its catch
\* classifies the error; send raises it (policy Never), or executeWithRetry's
\* catch classifies it again into lastError and consults shouldRetryForError.
\* calls1 is the number of transport invocations including this attempt's.
AttemptThrew(s, raw, cause, calls1) ==
    LET retry == client.retry
        classified == handleRequestError(raw)
        last == handleRequestError(classified)
    IN IF usesRetryLoop(retry)
       THEN /\ history' = [history EXCEPT ![s] = Append(@, ErrOutcome(last, cause, calls1))]
            /\ lastError' = [lastError EXCEPT ![s] = last]
            /\ IF shouldRetryForError(retry.retryPolicy, last)
               THEN /\ attempts' = [attempts EXCEPT ![s] = @ + 1]
                    /\ delays' = [delays EXCEPT ![s] = @ + 1]
                    /\ waits' = [waits EXCEPT ![s] = Append(@, delayTimeout(retry))]
                    /\ pc' = [pc EXCEPT ![s] = awaitDelay]
                    /\ result' = result
               ELSE /\ pc' = [pc EXCEPT ![s] = "done"]
                    /\ result' = [result EXCEPT ![s] = Raised(last)]
                    /\ UNCHANGED <<attempts, delays, waits>>
       ELSE /\ history' = [history EXCEPT ![s] = Append(@, ErrOutcome(classified, cause, calls1))]
            /\ pc' = [pc EXCEPT ![s] = "done"]
            /\ result' = [result EXCEPT ![s] = Raised(classified)]
            /\ UNCHANGED <<attempts, delays, waits, lastError>>

\* executeRequest up to its await fetch: createRequestInit, setupTimeout and
\* the transport invocation; a throw of createRequestInit goes to the catch
\* before any timer is armed or the transport is invoked.
executeRequest(s, req) ==
    LET thrown == createRequestInit(req)
        timeout == effectiveTimeout(req, client.connectTimeout)
        id == [s |-> s, a |-> calls[s] + 1, d |-> timeout]
    IN IF thrown # NoError
       THEN /\ AttemptThrew(s, thrown, NoCause, calls[s])
            /\ UNCHANGED <<timers, timeoutId, calls, armed>>
       ELSE /\ calls' = [calls EXCEPT ![s] = @ + 1]
            /\ pc' = [pc EXCEPT ![s] = "fetching"]
            /\ IF isFalsy(timeout)
               THEN /\ timeoutId' = [timeoutId EXCEPT ![s] = NoTimer]
                    /\ UNCHANGED <<timers, armed>>
               ELSE /\ timeoutId' = [timeoutId EXCEPT ![s] = id]
                    /\ timers' = timers \cup {id}
                    /\ armed' = [armed EXCEPT ![s] = @ + 1]
            /\ UNCHANGED <<attempts, delays, waits, lastError, history, result>>

\* executeWithRetry from the head of its while loop to the next await
executeWithRetry(s, req) ==
    IF loopCondition(attempts[s], client.retry)
    THEN executeRequest(s, req)
    ELSE /\ pc' = [pc EXCEPT ![s] = "done"]
         /\ result' = [result EXCEPT ![s] = Raised(exhaustedError(lastError[s]))]
         /\ UNCHANGED <<attempts, delays, waits, lastError, history, timers, timeoutId, calls, armed>>

\* ----------------------------------------------------------------- actions
\* client.send(req), up to its first await
Send(s, req) ==
    /\ pc[s] = "idle"
    /\ request' = [request EXCEPT ![s] = req]
    /\ IF isFalsyRequest(req)
       THEN /\ pc' = [pc EXCEPT ![s] = "done"]
            /\ result' = [result EXCEPT ![s] = Raised(InvalidRequestErr)]
            /\ UNCHANGED <<attempts, delays, waits, lastError, history, timers, timeoutId, calls, armed>>
       ELSE IF usesRetryLoop(client.retry)
            THEN executeWithRetry(s, req)
            ELSE executeRequest(s, req)
    /\ UNCHANGED <<client, controller, pending, ownAborted, atAbort>>
    /\ UNCHANGED <<buildVars, clientBuilderVars, codecVars, classifyVars, tripVars>>

\* fetch resolves: clearTimeout(timeoutId), then createHttpResponse, which
\* returns a null body at once (hasNoContent) or starts reading the body
FetchResolve(s, response) ==
    /\ pc[s] = "fetching"
    /\ ~signalAborted(s)
    /\ timers' = IF timeoutId[s] # NoTimer THEN timers \ {timeoutId[s]} ELSE timers
    /\ IF hasNoContent(response)
       THEN /\ AttemptReturned(s, response.status)
            /\ UNCHANGED pending
       ELSE /\ pc' = [pc EXCEPT ![s] = "reading"]
            /\ pending' = [pending EXCEPT ![s] = response.status]
            /\ UNCHANGED <<attempts, delays, waits, lastError, history, result>>
    /\ UNCHANGED <<client, controller, request, timeoutId, ownAborted, calls, armed, atAbort>>
    /\ UNCHANGED <<buildVars, clientBuilderVars, codecVars, classifyVars, tripVars>>

\* fetch rejects (connection failure or another error): the catch runs and
\* clearTimeout is skipped
FetchReject(s, raw) ==
    /\ pc[s] = "fetching"
    /\ ~signalAborted(s)
    /\ AttemptThrew(s, raw, NoCause, calls[s])
    /\ UNCHANGED <<client, controller, request, timeoutId, pending, timers, ownAborted,
                   calls, armed, atAbort>>
    /\ UNCHANGED <<buildVars, clientBuilderVars, codecVars, classifyVars, tripVars>>

\* the attempt's signal has fired: fetch rejects with an AbortError
FetchAbort(s) ==
    /\ pc[s] = "fetching"
    /\ signalAborted(s)
    /\ AttemptThrew(s, AbortErr, abortCause(s), calls[s])
    /\ UNCHANGED <<client, controller, request, timeoutId, pending, timers, ownAborted,
                   calls, armed, atAbort>>
    /\ UNCHANGED <<buildVars, clientBuilderVars, codecVars, classifyVars, tripVars>>

\* the body read completes: createHttpResponse returns the HttpResponse
ReadOk(s) ==
    /\ pc[s] = "reading"
    /\ ~signalAborted(s)
    /\ AttemptReturned(s, pending[s])
    /\ UNCHANGED <<client, controller, request, timeoutId, pending, timers, ownAborted,
                   calls, armed, atAbort>>
    /\ UNCHANGED <<buildVars, clientBuilderVars, codecVars, classifyVars, tripVars>>

\* the body read or parse fails (always so once the signal has fired, which
\* errors the body stream): deserializeBody wraps the failure in a TypeError
ReadFail(s) ==
    /\ pc[s] = "reading"
    /\ AttemptThrew(s, DeserializationErr, IF signalAborted(s) THEN abortCause(s) ELSE NoCause, calls[s])
    /\ UNCHANGED <<client, controller, request, timeoutId, pending, timers, ownAborted,
                   calls, armed, atAbort>>
    /\ UNCHANGED <<buildVars, clientBuilderVars, codecVars, classifyVars, tripVars>>

\* the delay's timer resolves: back to the head of the while loop
DelayDone(s) ==
    /\ pc[s] = "delaying"
    /\ executeWithRetry(s, request[s])
    /\ UNCHANGED <<client, controller, request, pending, ownAborted, atAbort>>
    /\ UNCHANGED <<buildVars, clientBuilderVars, codecVars, classifyVars, tripVars>>

\* faulty variant: a call on an aborted controller re-arms the signal
controllerAbort_toggle(c, cause) ==
    IF c.aborted THEN [aborted |-> FALSE, by |-> NoCause] ELSE [aborted |-> TRUE, by |-> cause]

\* AbortController.abort(): the first call sets the signal, later calls do nothing
controllerAbort(c, cause) == IF c.aborted THEN c ELSE [aborted |-> TRUE, by |-> cause]

\* client.abort() called by the application
Abort ==
    /\ controller' = controllerAbort(controller, ClientCause)
    /\ atAbort' = [s \in Sends |->
                     atAbort[s] \/ (pc[s] \in {"fetching", "reading", "delaying"}
                                    /\ getAbortSignal(request[s]) = "controller")]
    /\ UNCHANGED <<client, pc, request, attempts, lastError, timeoutId, pending, timers,
                   ownAborted, calls, delays, waits, armed, history, result>>
    /\ UNCHANGED <<buildVars, clientBuilderVars, codecVars, classifyVars, tripVars>>

\* a timer armed by setupTimeout fires: (): void => this.abort()
TimerFire(t) ==
    /\ t \in timers
    /\ timers' = timers \ {t}
    /\ controller' = controllerAbort(controller, TimerCause(t))
    /\ UNCHANGED <<client, pc, request, attempts, lastError, timeoutId, pending,
                   ownAborted, calls, delays, waits, armed, history, result, atAbort>>
    /\ UNCHANGED <<buildVars, clientBuilderVars, codecVars, classifyVars, tripVars>>

\* the application fires the AbortSignal it gave to the request of send s
AbortOwn(s) ==
    /\ pc[s] \in {"fetching", "reading", "delaying"}
    /\ request[s].signal = "own"
    /\ ~ownAborted[s]
    /\ ownAborted' = [ownAborted EXCEPT ![s] = TRUE]
    /\ UNCHANGED <<client, controller, pc, request, attempts, lastError, timeoutId, pending,
                   timers, calls, delays, waits, armed, history, result, atAbort>>
    /\ UNCHANGED <<buildVars, clientBuilderVars, codecVars, classifyVars, tripVars>>

Next ==
    \/ \E req \in Requests \cup {NullRequest} : Send(1, req)
    \/ \E response \in Responses : FetchResolve(1, response)
    \/ \E raw \in FetchRejections : FetchReject(1, raw)
    \/ FetchAbort(1)
    \/ ReadOk(1)
    \/ ReadFail(1)
    \/ DelayDone(1)
    \/ Abort
    \/ \E t \in timers : TimerFire(t)
    \/ AbortOwn(1)

\* one send() call on a client of any configuration
Spec == Init /\ [][Next]_vars

\* One send() call under the assumption that the environment lets every
\* awaited promise settle: each transport call, each body read and each delay
\* eventually completes.  A timeout is either unset or the largest one, and
\* so is a retry delay.
LiveRequests == {r \in Requests : r.timeout \in {0, MaxTimeout}}

InitLive ==
    /\ Init
    /\ client.retry.delay \in {0, MaxDelay}
    /\ client.connectTimeout = 0

NextLive ==
    \/ \E req \in LiveRequests \cup {NullRequest} : Send(1, req)
    \/ \E response \in Responses : FetchResolve(1, response)
    \/ \E raw \in FetchRejections : FetchReject(1, raw)
    \/ FetchAbort(1)
    \/ ReadOk(1)
    \/ ReadFail(1)
    \/ DelayDone(1)
    \/ Abort
    \/ \E t \in timers : TimerFire(t)
    \/ AbortOwn(1)

FetchCompletes(s) ==
    \/ \E response \in Responses : FetchResolve(s, response)
    \/ \E raw \in FetchRejections : FetchReject(s, raw)
    \/ FetchAbort(s)

ReadCompletes(s) == ReadOk(s) \/ ReadFail(s)

SpecLive ==
    /\ InitLive /\ [][NextLive]_vars
    /\ WF_vars(FetchCompletes(1)) /\ WF_vars(ReadCompletes(1)) /\ WF_vars(DelayDone(1))

\* ---------------------------------------------------------------------------
\* Two concurrent sends on one client.  The client retries (any policy but
\* Never), the requests carry a timeout and either their own signal or none,
\* and the transport answers 200 with a body, 204 without one, or fails to
\* connect.
ConcRequests == {r \in Requests : r.body = "null" /\ r.timeout = MaxTimeout}
ConcResponses == {r \in Responses : r.status \in {200, 204} /\ hasNoContent(r) = (r.status = 204)}
ConcRejections == {FetchFailedErr}

InitConc ==
    /\ Init
    /\ client.retry \in {c \in BuiltRetryConfigs : c.retryPolicy # NEVER /\ c.maxAttempts = ConcAttempts
                                                    /\ c.delay = MaxDelay}
    /\ client.connectTimeout = 0

NextConc ==
    \/ \E s \in Sends, req \in ConcRequests : Send(s, req)
    \/ \E s \in Sends, response \in ConcResponses : FetchResolve(s, response)
    \/ \E s \in Sends, raw \in ConcRejections : FetchReject(s, raw)
    \/ \E s \in Sends : FetchAbort(s)
    \/ \E s \in Sends : ReadOk(s)
    \/ \E s \in Sends : ReadFail(s)
    \/ \E s \in Sends : DelayDone(s)
    \/ Abort
    \/ \E t \in timers : TimerFire(t)
    \/ \E s \in Sends : AbortOwn(s)

SpecConc == InitConc /\ [][NextConc]_vars

\* ---------------------------------------------------------------------------
\* A request builder, the requests it builds and their accessors.  Objects
\* are held by reference: the builder's fields and a built request's fields
\* name the same Headers, URLSearchParams and URL objects.

\* what the accessors of a built request return: headers(), queryParams(),
\* url() (whose search is set from the query parameters) and timeout()
Observe(r) ==
    [method |-> r.method,
     headers |-> headersObj,
     queryParams |-> paramsObj[r.queryParams],
     url |-> IF r.url = 0 THEN NoUrl
             ELSE [address |-> urlObj[r.url].address,
                   search |-> paramsToString(paramsObj[r.queryParams])],
     timeout |-> r.timeout]

\* new HttpRequestImpl(..., this._url, this._headers, this._timeout, ...,
\* this._queryParams, ...): the fields are assigned as given, then frozen
HttpRequestImpl(method, url, timeout, queryParams) ==
    [method |-> method, url |-> url, queryParams |-> queryParams, timeout |-> timeout]

\* new URL(string): TRUE when the string parses as an absolute URL, else the
\* constructor throws a TypeError
parsesAsUrl(u) == u.address \in Addresses

\* method(method): TRUE when no TypeError is thrown
ensureMethod(method) == ~(method = "" \/ method \notin HttpMethod)

\* faulty variant: the address is not required
ensureRequest_methodOnly(b) == ~(b.method = "")

\* ensureRequest: TRUE when no TypeError is thrown
ensureRequest(b) == ~(b.url = 0) /\ ~(b.method = "")

\* builder.url(u): this._url = new URL(...), this._queryParams = new
\* URLSearchParams(this._url.search).  The new objects take the first
\* reference no built request holds; the objects the builder held before are
\* unreachable from then on unless a built request holds them.
BuilderUrl(u) ==
    /\ IF u = NullUrl \/ ~parsesAsUrl(u)
       THEN /\ threw' = TRUE
            /\ UNCHANGED <<builder, paramsObj, urlObj>>
       ELSE LET held == {reqs[i].req.url : i \in 1..Len(reqs)}
                k == CHOOSE r \in Refs \ held : \A q \in Refs \ held : r <= q
            IN /\ urlObj' = [urlObj EXCEPT ![k] = [address |-> u.address, search |-> u.search]]
               /\ paramsObj' = [paramsObj EXCEPT ![0] = <<>>, ![k] = parseSearch(u.search)]
               /\ builder' = [builder EXCEPT !.url = k, !.queryParams = k]
               /\ threw' = FALSE
    /\ UNCHANGED <<headersObj, reqs>>
    /\ UNCHANGED <<sendVars, clientBuilderVars, codecVars, classifyVars, tripVars>>

\* builder.header(name, value)
BuilderHeader(name, value) ==
    /\ IF ensureHeaders(name, value)
       THEN /\ headersObj' = headersSet(headersObj, name, value)
            /\ threw' = FALSE
       ELSE /\ threw' = TRUE
            /\ UNCHANGED headersObj
    /\ UNCHANGED <<builder, paramsObj, urlObj, reqs>>
    /\ UNCHANGED <<sendVars, clientBuilderVars, codecVars, classifyVars, tripVars>>

\* builder.queryParam(name, value)
BuilderQueryParam(name, value) ==
    /\ IF ensureQueryParams(name, value)
       THEN /\ paramsObj' = [paramsObj EXCEPT ![builder.queryParams] = paramsSet(@, name, value)]
            /\ threw' = FALSE
       ELSE /\ threw' = TRUE
            /\ UNCHANGED paramsObj
    /\ UNCHANGED <<builder, headersObj, urlObj, reqs>>
    /\ UNCHANGED <<sendVars, clientBuilderVars, codecVars, classifyVars, tripVars>>

\* Object.entries(headers).forEach(([key, value]) => { this.ensureHeaders(key,
\* value); this._headers.set(key, value) }): the entries are checked and set
\* one after the other, and the first TypeError ends the loop
RECURSIVE headersForEach(_, _)
headersForEach(headers, entries) ==
    IF entries = <<>> THEN [headers |-> headers, threw |-> FALSE]
    ELSE IF ~ensureHeaders(entries[1][1], entries[1][2]) THEN [headers |-> headers, threw |-> TRUE]
    ELSE headersForEach(headersSet(headers, entries[1][1], entries[1][2]), Tail(entries))

\* builder.headers(record)
BuilderHeaders(record) ==
    /\ IF ~record.present
       THEN /\ threw' = TRUE
            /\ UNCHANGED headersObj
       ELSE LET done == headersForEach(headersObj, record.entries)
            IN /\ headersObj' = done.headers
               /\ threw' = done.threw
    /\ UNCHANGED <<builder, paramsObj, urlObj, reqs>>
    /\ UNCHANGED <<sendVars, clientBuilderVars, codecVars, classifyVars, tripVars>>

\* Object.entries(params).forEach(([key, value]) => {
\* this.ensureQueryParams(key, value); this._queryParams.set(key, value) })
RECURSIVE paramsForEach(_, _)
paramsForEach(params, entries) ==
    IF entries = <<>> THEN [params |-> params, threw |-> FALSE]
    ELSE IF ~ensureQueryParams(entries[1][1], entries[1][2]) THEN [params |-> params, threw |-> TRUE]
    ELSE paramsForEach(paramsSet(params, entries[1][1], entries[1][2]), Tail(entries))

\* builder.queryParams(record)
BuilderQueryParams(record) ==
    /\ IF ~record.present
       THEN /\ threw' = TRUE
            /\ UNCHANGED paramsObj
       ELSE LET done == paramsForEach(paramsObj[builder.queryParams], record.entries)
            IN /\ paramsObj' = [paramsObj EXCEPT ![builder.queryParams] = done.params]
               /\ threw' = done.threw
    /\ UNCHANGED <<builder, headersObj, urlObj, reqs>>
    /\ UNCHANGED <<sendVars, clientBuilderVars, codecVars, classifyVars, tripVars>>

\* builder.timeout(duration)
BuilderTimeout(duration) ==
    /\ IF ensureTimeout(duration)
       THEN /\ builder' = [builder EXCEPT !.timeout = duration]
            /\ threw' = FALSE
       ELSE /\ threw' = TRUE
            /\ UNCHANGED builder
    /\ UNCHANGED <<headersObj, paramsObj, urlObj, reqs>>
    /\ UNCHANGED <<sendVars, clientBuilderVars, codecVars, classifyVars, tripVars>>

\* builder.method(method)
BuilderMethod(method) ==
    /\ IF ensureMethod(method)
       THEN /\ builder' = [builder EXCEPT !.method = method]
            /\ threw' = FALSE
       ELSE /\ threw' = TRUE
            /\ UNCHANGED builder
    /\ UNCHANGED <<headersObj, paramsObj, urlObj, reqs>>
    /\ UNCHANGED <<sendVars, clientBuilderVars, codecVars, classifyVars, tripVars>>

\* builder.build(): ensureRequest, then the request is constructed from the
\* builder's fields; built records what its accessors return at that moment
BuilderBuild ==
    /\ Len(reqs) < MaxBuilds
    /\ IF ~ensureRequest(builder)
       THEN /\ threw' = TRUE
            /\ UNCHANGED reqs
       ELSE LET r == HttpRequestImpl(builder.method, builder.url, builder.timeout, builder.queryParams)
            IN /\ reqs' = Append(reqs, [req |-> r, built |-> Observe(r)])
               /\ threw' = FALSE
    /\ UNCHANGED <<builder, headersObj, paramsObj, urlObj>>
    /\ UNCHANGED <<sendVars, clientBuilderVars, codecVars, classifyVars, tripVars>>

\* request.url() on the i-th built request: url.search = queryParams.toString()
RequestUrl(i) ==
    /\ i \in 1..Len(reqs)
    /\ urlObj' = [urlObj EXCEPT ![reqs[i].req.url].search =
                      paramsToString(paramsObj[reqs[i].req.queryParams])]
    /\ urlObj' # urlObj  \* a call that finds the search already set changes nothing
    /\ UNCHANGED <<builder, headersObj, paramsObj, reqs, threw>>
    /\ UNCHANGED <<sendVars, clientBuilderVars, codecVars, classifyVars, tripVars>>

InitBuild ==
    /\ Init
    /\ client = [retry |-> DefaultRetry, connectTimeout |-> 0]

NextBuild ==
    \/ \E u \in UrlInputs \cup {NullUrl, BadUrl} : BuilderUrl(u)
    \/ \E method \in MethodInputs : BuilderMethod(method)
    \/ \E name \in HeaderNames \cup {""}, value \in HeaderValues \cup {""} : BuilderHeader(name, value)
    \/ \E name \in ParamNames \cup {""}, value \in ParamValues \cup {""} : BuilderQueryParam(name, value)
    \/ \E record \in HeaderRecords : BuilderHeaders(record)
    \/ \E record \in ParamRecords : BuilderQueryParams(record)
    \/ \E duration \in {-1, 0, MaxTimeout} : BuilderTimeout(duration)
    \/ BuilderBuild
    \/ \E i \in 1..MaxBuilds : RequestUrl(i)

\* one request builder used by an application
SpecBuild == InitBuild /\ [][NextBuild]_vars

\* ---------------------------------------------------------------------------
\* The client builder.  Each action is one call of a builder method; cbCall
\* records the call, whether it threw and the fields it found.
Call(op, args, didThrow) == [op |-> op, args |-> args, threw |-> didThrow, before |-> cbuilder]

\* connectTimeout(duration): TRUE when no TypeError is thrown
ensureConnectTimeout(duration) == ~isFalsy(duration) /\ ~(duration <= 0)

\* priority(priority): TRUE when no TypeError is thrown ("" is a falsy argument)
ensurePriority(priority) == ~(priority = "" \/ priority \notin Priority)

\* builder.connectTimeout(duration)
ClientConnectTimeout(duration) ==
    /\ cbuilder' = IF ensureConnectTimeout(duration)
                   THEN [cbuilder EXCEPT !.connectTimeout = duration]
                   ELSE cbuilder
    /\ cbCall' = Call("connectTimeout", <<duration>>, ~ensureConnectTimeout(duration))
    /\ UNCHANGED <<sendVars, buildVars, codecVars, classifyVars, tripVars>>

\* builder.followRedirects(policy): the policy is stored as given
ClientFollowRedirects(policy) ==
    /\ cbuilder' = [cbuilder EXCEPT !.redirectPolicy = policy]
    /\ cbCall' = Call("followRedirects", <<policy>>, FALSE)
    /\ UNCHANGED <<sendVars, buildVars, codecVars, classifyVars, tripVars>>

\* builder.priority(priority)
ClientPriority(priority) ==
    /\ cbuilder' = IF ensurePriority(priority)
                   THEN [cbuilder EXCEPT !.priority = priority]
                   ELSE cbuilder
    /\ cbCall' = Call("priority", <<priority>>, ~ensurePriority(priority))
    /\ UNCHANGED <<sendVars, buildVars, codecVars, classifyVars, tripVars>>

\* builder.retry(policy, maxAttempts, delay): ensureRetryConfig, then the
\* new RetryConfig is stored
ClientRetry(policy, maxAttempts, delay) ==
    /\ cbuilder' = IF ensureRetryConfig(policy, maxAttempts, delay)
                   THEN [cbuilder EXCEPT !.retry = RetryConfig(policy, maxAttempts, delay)]
                   ELSE cbuilder
    /\ cbCall' = Call("retry", <<policy, maxAttempts, delay>>, ~ensureRetryConfig(policy, maxAttempts, delay))
    /\ UNCHANGED <<sendVars, buildVars, codecVars, classifyVars, tripVars>>

\* builder.build(): new HttpClientImpl from the builder's fields (cbCall.before)
ClientBuild ==
    /\ cbCall' = Call("build", <<>>, FALSE)
    /\ UNCHANGED cbuilder
    /\ UNCHANGED <<sendVars, buildVars, codecVars, classifyVars, tripVars>>

\* the arguments given to builder.retry(): a valid policy, a missing one and
\* a value outside the enumeration, with every number in range
ClientRetryInputs == {ALWAYS, "", "bogus"} \X (-1..MaxAttemptsBound) \X (-1..MaxDelay)

InitClientBuilder ==
    /\ Init
    /\ client = [retry |-> DefaultRetry, connectTimeout |-> 0]

NextClientBuilder ==
    \/ \E duration \in -1..MaxTimeout : ClientConnectTimeout(duration)
    \/ \E policy \in Redirect \cup {"bogus"} : ClientFollowRedirects(policy)
    \/ \E priority \in Priority \cup {"", "bogus"} : ClientPriority(priority)
    \/ \E x \in ClientRetryInputs : ClientRetry(x[1], x[2], x[3])
    \/ ClientBuild

\* one client builder used by an application
SpecClientBuilder == InitClientBuilder /\ [][NextClientBuilder]_vars

\* ---------------------------------------------------------------------------
\* Deserialization of a response body.  A string is a sequence of tokens: a
\* MIME word, a blank " ", or a separator ";".

JSON_MIME_TYPES == {<<"application/json">>, <<"application/problem+json">>, <<"application/ld+json">>}
TEXT_MIME_TYPES == {<<"text/plain">>, <<"text/html">>, <<"text/css">>, <<"text/javascript">>,
                    <<"application/javascript">>, <<"application/ecmascript">>,
                    <<"application/xml">>, <<"text/xml">>}
BINARY_MIME_TYPES == {<<"application/json">>, <<"application/problem+json">>, <<"application/ld+json">>}
FORM_MIME_TYPES == {<<"multipart/form-data">>, <<"application/x-www-form-urlencoded">>}

\* String.prototype.toLowerCase on a token
toLowerCase(w) ==
    CASE w = "Application/JSON" -> "application/json"
      [] w = "TEXT/PLAIN" -> "text/plain"
      [] w = "Application/Octet-Stream" -> "application/octet-stream"
      [] w = "Charset=UTF-8" -> "charset=utf-8"
      [] OTHER -> w

\* str.split(sep)[0]: the part before the first separator
splitFirst(str, sep) ==
    LET at == {i \in 1..Len(str) : str[i] = sep}
    IN IF at = {} THEN str
       ELSE SubSeq(str, 1, (CHOOSE i \in at : \A j \in at : i <= j) - 1)

\* str.trim(): leading and trailing blanks removed
trim(str) ==
    LET solid == {i \in 1..Len(str) : str[i] # " "}
    IN IF solid = {} THEN <<>>
       ELSE SubSeq(str, CHOOSE i \in solid : \A j \in solid : i <= j,
                        CHOOSE i \in solid : \A j \in solid : j <= i)

\* getMimeType: (Content-Type || '').split(';')[0].toLowerCase().trim();
\* an absent header is the empty string
getMimeType(response) ==
    LET first == splitFirst(response.contentType, ";")
    IN trim([i \in 1..Len(first) |-> toLowerCase(first[i])])

\* deserializeByMimeType: the read operation chosen for a MIME type, or the
\* JSON fallback
deserializeByMimeType(mimeType) ==
    IF mimeType \in JSON_MIME_TYPES THEN "json"
    ELSE IF mimeType \in TEXT_MIME_TYPES THEN "text"
    ELSE IF mimeType \in BINARY_MIME_TYPES THEN "blob"
    ELSE IF mimeType \in FORM_MIME_TYPES THEN "formData"
    ELSE "fallback"

Value(op, of) == [kind |-> "value", op |-> op, of |-> of, mimeType |-> <<>>, cause |-> ""]
NullBody == [kind |-> "null", op |-> "", of |-> "", mimeType |-> <<>>, cause |-> ""]

\* deserializeBody's catch: any error becomes a TypeError naming the MIME type
DeserializeError(mimeType, cause) ==
    [kind |-> "TypeError", op |-> "", of |-> "", mimeType |-> mimeType, cause |-> cause]

\* how a read operation of the transport's response settles: "" when it
\* resolves, else the error it rejects with.  A used body rejects every read;
\* a null body reads as empty; a broken stream fails every read; json() needs
\* a JSON document and formData() an encoded form.
readError(op, response, used) ==
    IF response.body = "null"
    THEN CASE op = "json" -> "SyntaxError"
           [] op = "formData" -> "TypeError"
           [] OTHER -> ""
    ELSE IF used THEN "body used already"
    ELSE IF response.body = "broken" THEN "read failed"
    ELSE CASE op = "json" -> IF response.body = "json" THEN "" ELSE "SyntaxError"
           [] op = "formData" -> IF response.body = "form" THEN "" ELSE "TypeError"
           [] OTHER -> ""

\* calling a read operation starts consuming a body stream
consume(response) == [response EXCEPT !.bodyUsed = @ \/ response.body # "null"]

\* deserializeBody up to its first await: no content, or the first read
\* operation is called
Deserialize(response) ==
    /\ cpc \in {"idle", "done"}
    /\ IF hasNoContent(response)
       THEN /\ resp' = response
            /\ reads' = <<>>
            /\ decoded' = NullBody
            /\ cpc' = "done"
       ELSE LET op == deserializeByMimeType(getMimeType(response))
            IN /\ resp' = consume(response)
               /\ reads' = <<IF op = "fallback" THEN "json" ELSE op>>
               /\ decoded' = NoValue
               /\ cpc' = IF op = "fallback" THEN "fallback" ELSE "reading"
    /\ UNCHANGED <<sendVars, buildVars, clientBuilderVars, classifyVars, tripVars>>

\* the read operation chosen by MIME type settles
ReadSettles ==
    /\ cpc = "reading"
    /\ LET op == reads[1]
           error == readError(op, resp, FALSE)
       IN decoded' = IF error = "" THEN Value(op, resp.body)
                      ELSE DeserializeError(getMimeType(resp), error)
    /\ cpc' = "done"
    /\ UNCHANGED <<resp, reads>>
    /\ UNCHANGED <<sendVars, buildVars, clientBuilderVars, classifyVars, tripVars>>

\* attemptJsonFallback: json() settles; when it rejects, text() is called on
\* the same response
FallbackJsonSettles ==
    /\ cpc = "fallback"
    /\ IF readError("json", resp, FALSE) = ""
       THEN /\ decoded' = Value("json", resp.body)
            /\ cpc' = "done"
            /\ UNCHANGED reads
       ELSE /\ reads' = Append(reads, "text")
            /\ cpc' = "fallbackText"
            /\ UNCHANGED decoded
    /\ UNCHANGED resp
    /\ UNCHANGED <<sendVars, buildVars, clientBuilderVars, classifyVars, tripVars>>

\* attemptJsonFallback: text() settles
FallbackTextSettles ==
    /\ cpc = "fallbackText"
    /\ LET error == readError("text", resp, resp.bodyUsed)
       IN decoded' = IF error = "" THEN Value("text", resp.body)
                      ELSE DeserializeError(getMimeType(resp), error)
    /\ cpc' = "done"
    /\ UNCHANGED <<resp, reads>>
    /\ UNCHANGED <<sendVars, buildVars, clientBuilderVars, classifyVars, tripVars>>

\* the Content-Type headers of the responses: absent, a bare MIME type, one
\* with a parameter, one with blanks around the type
MimeWords == {"application/json", "application/problem+json", "text/plain", "text/html",
              "application/octet-stream", "application/pdf", "image/png",
              "multipart/form-data", "application/x-www-form-urlencoded",
              "application/x-unknown", "Application/JSON", "TEXT/PLAIN",
              "Application/Octet-Stream"}
ContentTypes ==
    {<<>>} \cup {<<w>> : w \in MimeWords}
           \cup {<<w, ";", " ", "Charset=UTF-8">> : w \in MimeWords}
           \cup {<<" ", w, " ", ";", "charset=utf-8">> : w \in MimeWords}

\* what the body stream carries: a JSON document, text that is not JSON, an
\* encoded form, bytes, or a stream whose read fails; null for no stream
BodyContents == {"json", "text", "form", "bytes", "broken"}

\* the responses the transport resolves with; a 204 response has no body
CodecResponses ==
    [status : {200}, contentType : ContentTypes, body : BodyContents \cup {"null"}, bodyUsed : {FALSE}]
    \cup [status : {HTTP_NO_CONTENT}, contentType : ContentTypes, body : {"null"}, bodyUsed : {FALSE}]

InitCodec ==
    /\ Init
    /\ client = [retry |-> DefaultRetry, connectTimeout |-> 0]

NextCodec ==
    \/ \E response \in CodecResponses : Deserialize(response)
    \/ ReadSettles
    \/ FallbackJsonSettles
    \/ FallbackTextSettles

\* the deserialization of the responses of successive attempts
SpecCodec == InitCodec /\ [][NextCodec]_vars

\* ---------------------------------------------------------------------------
\* The error classifier on its own.  An attempt raises a value; the catch of
\* executeRequest classifies it and, under a retrying policy, the catch of
\* executeWithRetry classifies the result once more.

\* the values an attempt can raise: error objects of every class with any
\* name and message, null, and values that are not errors
RaisedValues ==
    [cls : {"TypeError", "Error", "DOMException", "HttpTimeoutException", "HttpConnectTimeoutException"},
     name : {"Error", "TypeError", "AbortError", "TimeoutError"},
     msg : {"Failed to fetch", "failed to fetch", "boom", "This operation was aborted"}]
    \cup {Err("falsy", "", ""), Err("string", "", "boom"), Err("string", "", "Failed to fetch"),
          Err("object", "AbortError", "boom")}

\* an attempt raises the value v
Raise(v) ==
    /\ failure' = v
    /\ outcomes' = <<>>
    /\ UNCHANGED <<sendVars, buildVars, clientBuilderVars, codecVars, tripVars>>

\* a catch block calls handleRequestError: on the raised value first, then
\* on the result of the first call
Classify ==
    /\ failure # NoError
    /\ Len(outcomes) < 2
    /\ outcomes' = Append(outcomes, handleRequestError(IF outcomes = <<>> THEN failure
                                                        ELSE outcomes[Len(outcomes)]))
    /\ UNCHANGED failure
    /\ UNCHANGED <<sendVars, buildVars, clientBuilderVars, codecVars, tripVars>>

InitClassify ==
    /\ Init
    /\ client = [retry |-> DefaultRetry, connectTimeout |-> 0]

NextClassify ==
    \/ \E v \in RaisedValues : Raise(v)
    \/ Classify

\* the classification of the failures of successive attempts
SpecClassify == InitClassify /\ [][NextClassify]_vars

\* ---------------------------------------------------------------------------
\* A body serialized, carried back by a response and deserialized.  Text is
\* a sequence of tokens: punctuation and literals as written, strings quoted.
Lit(w) == [q |-> FALSE, s |-> w]
Quoted(w) == [q |-> TRUE, s |-> w]

\* the values of an object's fields: a number, strings, null, a boolean
JsonAtoms == {[t |-> "number", v |-> "1"], [t |-> "string", v |-> "1"], [t |-> "string", v |-> "a"],
              [t |-> "null", v |-> ""], [t |-> "boolean", v |-> "true"]}

\* JSON.stringify of a field value
atomToken(a) ==
    CASE a.t = "string" -> Quoted(a.v)
      [] a.t = "null" -> Lit("null")
      [] OTHER -> Lit(a.v)

\* JSON.parse of a value token
tokenAtom(tok) ==
    IF tok.q THEN [t |-> "string", v |-> tok.s]
    ELSE IF tok.s = "null" THEN [t |-> "null", v |-> ""]
    ELSE IF tok.s = "true" THEN [t |-> "boolean", v |-> "true"]
    ELSE [t |-> "number", v |-> tok.s]

RECURSIVE stringifyFields(_)
stringifyFields(fields) ==
    IF fields = <<>> THEN <<>>
    ELSE <<Quoted(fields[1][1]), Lit(":"), atomToken(fields[1][2])>>
         \o (IF Len(fields) = 1 THEN <<>> ELSE <<Lit(",")>> \o stringifyFields(Tail(fields)))

\* JSON.stringify of a plain object
JSONstringify(fields) == <<Lit("{")>> \o stringifyFields(fields) \o <<Lit("}")>>

Punctuation == {Lit("{"), Lit("}"), Lit(":"), Lit(",")}

\* JSON.parse of a text: [ok, fields]; ok is FALSE for a SyntaxError
JSONparse(text) ==
    LET inner == IF Len(text) >= 2 THEN SubSeq(text, 2, Len(text) - 1) ELSE <<>>
        n == (Len(inner) + 1) \div 4
        wellFormed ==
            /\ Len(text) >= 2
            /\ text[1] = Lit("{") /\ text[Len(text)] = Lit("}")
            /\ Len(inner) = 0 \/ Len(inner) = 4 * n - 1
            /\ \A i \in 1..n :
                   /\ inner[4 * i - 3].q
                   /\ inner[4 * i - 2] = Lit(":")
                   /\ inner[4 * i - 1] \notin Punctuation
                   /\ i < n => inner[4 * i] = Lit(",")
    IN IF wellFormed
       THEN [ok |-> TRUE, fields |-> [i \in 1..n |-> <<inner[4 * i - 3].s, tokenAtom(inner[4 * i - 1])>>]]
       ELSE [ok |-> FALSE, fields |-> <<>>]

\* isFalsy(body): null, or the empty string
isFalsyBody(body) == body.type = "absent" \/ (body.type = "string" /\ body.text = <<>>)

\* faulty variant: no body is passed through
isDirectlySerializable_never(body) == FALSE

\* isDirectlySerializable: of the bodies here, the strings
isDirectlySerializable(body) == body.type = "string"

\* serializeToJson of a plain object
serializeToJson(body) == JSONstringify(body.fields)

\* serializeBody: the payload handed to the transport
serializedForm(body) ==
    IF isFalsyBody(body) THEN NoPayload
    ELSE IF isDirectlySerializable(body) THEN [present |-> TRUE, text |-> body.text]
    ELSE [present |-> TRUE, text |-> serializeToJson(body)]

\* the content type that matches a body's type
originType(body) ==
    CASE body.type = "string" -> <<"text/plain", ";", " ", "Charset=UTF-8">>
      [] body.type = "object" -> <<"application/json">>
      [] OTHER -> <<>>

\* the request bodies: none, strings (empty, plain, looking like JSON) and
\* plain objects with up to two fields
StringBodies ==
    {Body("string", t, <<>>) : t \in {<<>>, <<Lit("hello")>>, <<Lit("1")>>,
                                       <<Lit("{"), Quoted("a"), Lit(":"), Lit("1"), Lit("}")>>}}
ObjectBodies ==
    {Body("object", <<>>, f) : f \in {<<>>} \cup {<<<<k, x>>>> : k \in {"a", "b"}, x \in JsonAtoms}
                                        \cup {<<<<"a", x>>, <<"b", y>>>> : x \in JsonAtoms, y \in JsonAtoms}}
Bodies == {AbsentBody} \cup StringBodies \cup ObjectBodies

\* createRequestInit: body: this.serializeBody(request.body())
SerializeBody(body) ==
    /\ sentBody' = body
    /\ wire' = serializedForm(body)
    /\ echoed' = NoResponse
    /\ received' = [kind |-> "sent", body |-> AbsentBody]
    /\ UNCHANGED <<sendVars, buildVars, clientBuilderVars, codecVars, classifyVars>>

\* the transport resolves with a response that carries the payload back under
\* the content type of the body's type; no payload, no body stream
Echo ==
    /\ received.kind = "sent"
    /\ echoed' = [status |-> 200, contentType |-> originType(sentBody),
                  body |-> IF wire.present THEN "stream" ELSE "null", bodyUsed |-> FALSE]
    /\ received' = [received EXCEPT !.kind = "echoed"]
    /\ UNCHANGED <<sentBody, wire>>
    /\ UNCHANGED <<sendVars, buildVars, clientBuilderVars, codecVars, classifyVars>>

\* deserializeBody on that response, its read settled
DeserializeEcho ==
    /\ received.kind = "echoed"
    /\ received' =
          IF hasNoContent(echoed) THEN [kind |-> "null", body |-> AbsentBody]
          ELSE LET op == deserializeByMimeType(getMimeType(echoed))
                   parsed == JSONparse(wire.text)
               IN CASE op = "json" /\ parsed.ok -> [kind |-> "value", body |-> Body("object", <<>>, parsed.fields)]
                    [] op = "text" -> [kind |-> "value", body |-> Body("string", wire.text, <<>>)]
                    [] OTHER -> [kind |-> "TypeError", body |-> AbsentBody]
    /\ UNCHANGED <<sentBody, wire, echoed>>
    /\ UNCHANGED <<sendVars, buildVars, clientBuilderVars, codecVars, classifyVars>>

InitRoundTrip ==
    /\ Init
    /\ client = [retry |-> DefaultRetry, connectTimeout |-> 0]

NextRoundTrip ==
    \/ \E body \in Bodies : SerializeBody(body)
    \/ Echo
    \/ DeserializeEcho

\* bodies sent and received back
SpecRoundTrip == InitRoundTrip /\ [][NextRoundTrip]_vars

\* ===========================================================================
\* Properties
\* ===========================================================================
Done(s) == pc[s] = "done"
Sent(s) == pc[s] # "idle"
Policy == client.retry.retryPolicy
MaxAttempts == client.retry.maxAttempts

\* the retry tables of the specification, on a recorded attempt outcome
RetryEligible(e) ==
    \/ e.kind = "resp" /\ Policy = ON_SERVER_ERROR /\ e.status >= 500
    \/ e.kind = "resp" /\ Policy = ALWAYS /\ e.status # 200
    \/ e.kind = "err" /\ Policy \in {ON_NETWORK_ERROR, ALWAYS} /\ e.err.cls = "HttpConnectTimeoutException"

\* the send has made maxAttempts attempts and every outcome was retry-eligible
Exhausted(s) ==
    /\ Policy # NEVER
    /\ Done(s)
    /\ Len(history[s]) = MaxAttempts
    /\ \A i \in 1..Len(history[s]) : RetryEligible(history[s][i])

ErrIndices(s) == {i \in 1..Len(history[s]) : history[s][i].kind = "err"}
LastIndex(S) == CHOOSE i \in S : \A j \in S : j <= i

\* C1 as stated: under policy Never every send with a non-null request makes
\* exactly one transport invocation and awaits no delay.
C1_Original ==
    \A s \in Sends :
        (Policy = NEVER /\ Sent(s) /\ request[s].present) => (calls[s] = 1 /\ delays[s] = 0)

\* C1 amended: under policy Never a send with a non-null request awaits no
\* delay and makes exactly one transport invocation, except that it makes
\* none when serializing the body fails (the serialization error is raised).
C1_NeverOneInvocation ==
    \A s \in Sends :
        (Policy = NEVER /\ Sent(s) /\ request[s].present) =>
            /\ delays[s] = 0
            /\ attempts[s] = 0
            /\ IF request[s].body = "circular"
               THEN calls[s] = 0 /\ result[s] = Raised(SerializationErr)
               ELSE calls[s] = 1

C1_Witness ==
    /\ client.retry = DefaultRetry
    /\ Done(1)
    /\ calls[1] = 1
    /\ result[1] = Raised(ConnectTimeoutExc)

C3_ServerErrorThenSuccess ==
    \A s \in Sends :
        /\ Policy = ON_SERVER_ERROR =>
              \A i \in 1..Len(history[s]) :
                  ( /\ history[s][i].kind = "resp" /\ history[s][i].status < 500
                    /\ \A j \in 1..(i - 1) : history[s][j].kind = "resp" /\ history[s][j].status >= 500 )
                  => ( /\ Done(s)
                       /\ i <= MaxAttempts
                       /\ calls[s] = i
                       /\ result[s] = Returned(history[s][i].status, i) )
        /\ result[s].kind = "response" =>
              /\ result[s].attempt = calls[s]
              /\ history[s][Len(history[s])] = RespOutcome(result[s].status, calls[s])

C3_Witness ==
    /\ Policy = ON_SERVER_ERROR /\ MaxAttempts = 3
    /\ Done(1) /\ calls[1] = 3
    /\ Len(history[1]) = 3
    /\ history[1][1].status = 500 /\ history[1][2].status = 500 /\ history[1][3].status = 200
    /\ result[1] = Returned(200, 3)

\* C4 as stated: a send that exhausts maxAttempts on retry-eligible statuses
\* alone makes maxAttempts transport invocations and returns the last response.
C4_Original ==
    \A s \in Sends :
        (Exhausted(s) /\ ErrIndices(s) = {}) =>
            /\ calls[s] = MaxAttempts
            /\ result[s] = Returned(history[s][MaxAttempts].status, MaxAttempts)

\* C4 amended: a send that exhausts maxAttempts on retry-eligible statuses
\* alone makes exactly maxAttempts transport invocations and then raises the
\* generic max-attempts-exhausted error; the last response is not returned.
C4_ExhaustedByStatusRaises ==
    \A s \in Sends :
        (Exhausted(s) /\ ErrIndices(s) = {}) =>
            /\ calls[s] = MaxAttempts
            /\ result[s] = Raised(MaxRetryErr)

C4_Witness ==
    /\ Policy = ON_SERVER_ERROR /\ MaxAttempts = 3
    /\ Exhausted(1)
    /\ \A i \in 1..3 : history[1][i] = RespOutcome(500, i)
    /\ result[1] = Raised(MaxRetryErr)

\* C5: when maxAttempts attempts were made and every outcome was
\* retry-eligible, send raises the last recorded error of the send if any
\* attempt failed, else the generic max-attempts-exhausted error.
C5_ExhaustedRaisesLastError ==
    \A s \in Sends :
        Exhausted(s) =>
            /\ result[s].kind = "error"
            /\ result[s].err = IF ErrIndices(s) # {}
                               THEN history[s][LastIndex(ErrIndices(s))].err
                               ELSE MaxRetryErr

C5_Witness ==
    /\ Policy = ALWAYS /\ MaxAttempts = 2
    /\ Exhausted(1)
    /\ history[1][1].kind = "err"
    /\ history[1][2] = RespOutcome(500, 2)
    /\ result[1] = Raised(ConnectTimeoutExc)

\* C6: send with a null request raises the invalid-request error and makes no
\* transport invocation, arms no timer and awaits no delay, under any policy.
C6_NullRequestRejected ==
    \A s \in Sends :
        (Sent(s) /\ ~request[s].present) =>
            /\ Done(s)
            /\ result[s] = Raised(InvalidRequestErr)
            /\ calls[s] = 0 /\ armed[s] = 0 /\ delays[s] = 0 /\ attempts[s] = 0
            /\ history[s] = <<>>
            /\ \A t \in timers : t.s # s

C6_Witness ==
    /\ Policy = ALWAYS
    /\ client.connectTimeout > 0
    /\ Sent(1) /\ ~request[1].present
    /\ result[1] = Raised(InvalidRequestErr)

C9_TimerDisarmedOnCompletion ==
    \A t \in timers : pc[t.s] = "fetching" /\ calls[t.s] = t.a

\* C10: a timer that fires aborts only the attempt that armed it, never an
\* attempt of another send nor a later attempt of the same send.
C10_TimerAbortsOwnAttemptOnly ==
    \A s \in Sends :
        \A i \in 1..Len(history[s]) :
            history[s][i].cause.src = "timer" =>
                (history[s][i].cause.s = s /\ history[s][i].cause.a = history[s][i].attempt)

\* the code took the retry branch after the i-th outcome of send s: the
\* outcome was not handed to the caller, it was counted and a delay was begun,
\* and another attempt follows unless maxAttempts attempts have been made
Retried(s, i) ==
    /\ attempts[s] >= i
    /\ delays[s] >= i
    /\ \/ i < Len(history[s])
       \/ pc[s] \in {"delaying", "fetching", "reading"}
       \/ Done(s) /\ i = MaxAttempts /\ result[s].kind = "error"

\* the i-th outcome of send s ended the send at once: nothing follows it
EndedSend(s, i) ==
    /\ i = Len(history[s])
    /\ Done(s)
    /\ attempts[s] = i - 1
    /\ delays[s] = i - 1
    /\ calls[s] = history[s][i].attempt

\* C11: an attempt whose timer fires while its transport call is in flight
\* is cancelled, whichever signal the request uses: the call does not resolve
\* and the attempt does not end with a response, it fails (with
\* HttpTimeoutException).  A timer is disarmed when the transport call
\* resolves, so the timer of an attempt that got a response fired while the
\* call was in flight.
C11_TimeoutCancelsAttempt ==
    \A s \in Sends :
        \A a \in 1..calls[s] :
            controller.by = TimerCause([s |-> s, a |-> a]) =>
                /\ ~(pc[s] = "reading" /\ calls[s] = a)
                /\ Len(history[s]) >= a =>
                      /\ history[s][a].kind = "err"
                      /\ history[s][a].cause = TimerCause([s |-> s, a |-> a]) =>
                            history[s][a].err = TimeoutExc

\* C12: a response is retried iff the policy is OnServerError and its status
\* is >= 500, or the policy is Always and its status is not 200; any other
\* response is returned to the caller at once, with no delay after it and no
\* further transport invocation.
C12_StatusRetry ==
    \A s \in Sends :
        \A i \in 1..Len(history[s]) :
            history[s][i].kind = "resp" =>
                IF RetryEligible(history[s][i])
                THEN Retried(s, i)
                ELSE /\ EndedSend(s, i)
                     /\ result[s] = Returned(history[s][i].status, i)

C12_Witness ==
    /\ Policy = ON_SERVER_ERROR /\ MaxAttempts = 3
    /\ history[1] = <<RespOutcome(500, 1), RespOutcome(404, 2)>>
    /\ result[1] = Returned(404, 2)
    /\ calls[1] = 2 /\ delays[1] = 1

\* C13: a failed attempt is retried iff the policy is OnNetworkError or Always
\* and the classified error is an HttpConnectTimeoutException; any other
\* failure is raised to the caller at once, with no delay after it.
C13_ErrorRetry ==
    \A s \in Sends :
        \A i \in 1..Len(history[s]) :
            history[s][i].kind = "err" =>
                IF RetryEligible(history[s][i])
                THEN Retried(s, i)
                ELSE /\ EndedSend(s, i)
                     /\ result[s] = Raised(history[s][i].err)

C13_Witness ==
    /\ Policy = ALWAYS
    /\ Len(history[1]) = 2
    /\ history[1][1].err = ConnectTimeoutExc
    /\ history[1][2].err = OtherErr
    /\ result[1] = Raised(OtherErr)
    /\ calls[1] = 2 /\ delays[1] = 1

\* C14: under OnNetworkError with maxAttempts >= 2, after a first attempt that
\* failed to connect exactly one delay of the configured length is awaited
\* before the second transport invocation starts, and when the second attempt
\* returns 200 the send has made exactly two invocations, has awaited that one
\* delay and returns the response of the second attempt.
C14_ConnectFailureThenSuccess ==
    \A s \in Sends :
        ( /\ Policy = ON_NETWORK_ERROR /\ MaxAttempts >= 2
          /\ Len(history[s]) >= 1
          /\ history[s][1].kind = "err" /\ history[s][1].err = ConnectTimeoutExc ) =>
            /\ Len(history[s]) = 1 =>
                  /\ waits[s] = <<client.retry.delay>>
                  /\ \/ pc[s] = "delaying" /\ calls[s] = 1
                     \/ pc[s] \in {"fetching", "reading"} /\ calls[s] = 2
            /\ (Len(history[s]) >= 2 /\ history[s][2] = RespOutcome(200, 2)) =>
                  /\ Done(s)
                  /\ calls[s] = 2
                  /\ waits[s] = <<client.retry.delay>>
                  /\ result[s] = Returned(200, 2)

C14_Witness ==
    /\ Policy = ON_NETWORK_ERROR /\ MaxAttempts = 2
    /\ history[1] = <<ErrOutcome(ConnectTimeoutExc, NoCause, 1), RespOutcome(200, 2)>>
    /\ waits[1] = <<MaxDelay>>
    /\ result[1] = Returned(200, 2)

\* C15: under every policy an attempt that fails with HttpTimeoutException is
\* never retried: it is the last attempt of its send, which raises that error
\* with no delay after it.
C15_TimeoutNeverRetried ==
    \A s \in Sends :
        \A i \in 1..Len(history[s]) :
            (history[s][i].kind = "err" /\ history[s][i].err = TimeoutExc) =>
                /\ EndedSend(s, i)
                /\ result[s] = Raised(TimeoutExc)

C15_Witness ==
    /\ Policy = ALWAYS /\ MaxAttempts = 3
    /\ Len(history[1]) = 2
    /\ history[1][1] = RespOutcome(500, 1)
    /\ history[1][2].err = TimeoutExc
    /\ Done(1) /\ calls[1] = 2

\* C16: under every policy a body that cannot be serialized ends the send with
\* the serialization error before any transport invocation, timer or delay,
\* and a failure to deserialize a response ends the send with that error, with
\* no delay after it and no further attempt.
C16_CodecErrorsEndSend ==
    \A s \in Sends :
        /\ (Sent(s) /\ request[s].present /\ request[s].body = "circular") =>
              /\ Done(s)
              /\ result[s] = Raised(SerializationErr)
              /\ calls[s] = 0 /\ armed[s] = 0 /\ delays[s] = 0
              /\ \A t \in timers : t.s # s
        /\ \A i \in 1..Len(history[s]) :
              (history[s][i].kind = "err" /\ history[s][i].err = DeserializationErr) =>
                  /\ EndedSend(s, i)
                  /\ calls[s] = i
                  /\ result[s] = Raised(DeserializationErr)

C16_Witness ==
    /\ Policy = ALWAYS /\ MaxAttempts = 3
    /\ Len(history[1]) = 2
    /\ history[1][1] = RespOutcome(500, 1)
    /\ history[1][2].err = DeserializationErr
    /\ result[1] = Raised(DeserializationErr)
    /\ calls[1] = 2 /\ delays[1] = 1

\* C17 as stated: when send raises after retries, its last attempt failed and
\* the error raised is the classified failure of that last attempt.
C17_Original ==
    \A s \in Sends :
        (Done(s) /\ result[s].kind = "error" /\ attempts[s] >= 1) =>
            /\ history[s][Len(history[s])].kind = "err"
            /\ result[s].err = history[s][Len(history[s])].err

\* C17 amended: when send raises after retries and its last attempt failed,
\* the error raised is the classified failure of that last attempt; when its
\* last attempt returned a response, the attempts are exhausted and the error
\* raised is the failure of the latest earlier attempt that failed, or the
\* generic max-attempts error when none failed.
C17_RaisedAfterRetries ==
    \A s \in Sends :
        (Done(s) /\ result[s].kind = "error" /\ attempts[s] >= 1) =>
            IF history[s][Len(history[s])].kind = "err"
            THEN result[s].err = history[s][Len(history[s])].err
            ELSE /\ Exhausted(s)
                 /\ ErrIndices(s) # {} => result[s].err = history[s][LastIndex(ErrIndices(s))].err
                 /\ ErrIndices(s) = {} => result[s].err = MaxRetryErr

C17_Witness ==
    /\ Policy = ON_NETWORK_ERROR /\ MaxAttempts = 3
    /\ Len(history[1]) = 2
    /\ history[1][1].err = ConnectTimeoutExc
    /\ history[1][2].err = TimeoutExc
    /\ result[1] = Raised(TimeoutExc)

\* C18: the attempts of a send are strictly sequential: while a transport
\* call or body read is in flight it belongs to the one attempt that follows
\* all completed attempts, each of which was retried and had its delay
\* completed; during a delay no transport call of the send is in flight; and
\* no timer exists for an attempt that has not begun.
C18_AttemptsSequential ==
    \A s \in Sends :
        /\ pc[s] \in {"fetching", "reading"} =>
              /\ calls[s] = Len(history[s]) + 1
              /\ attempts[s] = Len(history[s])
              /\ delays[s] = Len(history[s])
        /\ pc[s] = "delaying" =>
              /\ calls[s] = Len(history[s])
              /\ attempts[s] = Len(history[s])
              /\ delays[s] = Len(history[s])
        /\ calls[s] <= Len(history[s]) + 1
        /\ armed[s] <= calls[s]
        /\ \A t \in timers : t.s = s => t.a <= calls[s]

C18_Witness ==
    /\ pc[1] = "fetching"
    /\ calls[1] = 3
    /\ Len(history[1]) = 2
    /\ delays[1] = 2
    /\ timeoutId[1].s = 1 /\ timeoutId[1].a = 3

\* C19: every send terminates: once called it eventually returns a response
\* or raises an error, after at most maxAttempts attempts (one under Never),
\* and a send that has ended stays ended with the same result.
C19_SendTerminates ==
    /\ \A s \in Sends : Sent(s) ~> Done(s)
    /\ [](\A s \in Sends : /\ calls[s] <= (IF Policy = NEVER THEN 1 ELSE MaxAttempts)
                           /\ attempts[s] <= MaxAttempts
                           /\ Done(s) <=> result[s].kind \in {"response", "error"})
    /\ [][\A s \in Sends : Done(s) => (Done(s)' /\ result'[s] = result[s])]_vars

C19_Witness ==
    /\ Policy = ALWAYS /\ MaxAttempts = MaxAttemptsBound
    /\ Done(1)
    /\ calls[1] = MaxAttemptsBound /\ attempts[1] = MaxAttemptsBound
    /\ result[1].kind = "error"

\* C20: a built request is immutable: whatever is called afterwards on the
\* builder or on the request, the request's accessors return what they
\* returned when build() returned it.
C20_RequestImmutable ==
    \A i \in 1..Len(reqs) : Observe(reqs[i].req) = reqs[i].built

\* C21: abort() is idempotent: a call made when the client's controller is
\* already aborted (by an earlier abort() of the application or of a timer
\* callback, whatever sends are in flight) changes nothing of the client or
\* of any send, and a call always leaves the controller aborted; abort() can
\* be called in every state.
C21_AbortIdempotent ==
    /\ [][Abort => /\ controller'.aborted
                   /\ controller.aborted =>
                         UNCHANGED <<client, controller, pc, request, attempts, lastError,
                                     timeoutId, pending, timers, ownAborted, calls, delays,
                                     armed, history, result, waits>>]_vars
    /\ [](ENABLED Abort)

C21_Witness ==
    /\ controller.by = TimerCause([s |-> 1, a |-> 1])
    /\ atAbort[2]
    /\ pc[1] = "fetching" /\ pc[2] = "fetching"

\* C22: retry(policy, maxAttempts, delay) throws a TypeError exactly when the
\* policy is not a retry policy, maxAttempts <= 0 or delay < 0 (so delay = 0
\* is accepted); an accepted call stores the configuration and a rejected
\* call leaves the builder's retry settings as they were.
C22_RetryValidation ==
    cbCall.op = "retry" =>
        LET policy == cbCall.args[1]
            maxAttempts == cbCall.args[2]
            delay == cbCall.args[3]
            valid == policy \in RetryPolicy /\ maxAttempts > 0 /\ delay >= 0
        IN /\ cbCall.threw <=> ~valid
           /\ cbuilder.retry = IF valid THEN RetryConfig(policy, maxAttempts, delay)
                               ELSE cbCall.before.retry

\* C23: the first request is not counted as an attempt: under a retrying
\* policy, a finished send whose every outcome was retry-eligible has made
\* the initial transport invocation plus maxAttempts retries.
C23_FirstRequestNotCounted ==
    \A s \in Sends :
        ( /\ Policy # NEVER
          /\ Done(s)
          /\ Len(history[s]) > 0
          /\ \A i \in 1..Len(history[s]) : RetryEligible(history[s][i]) )
        => ( /\ calls[s] = MaxAttempts + 1
             /\ delays[s] = MaxAttempts )

C25_ExponentialBackoff ==
    \A s \in Sends :
        \A i \in 1..Len(waits[s]) : waits[s][i] = client.retry.delay * 2^(i - 1)

\* the MIME families of the specification's deserialization rules
StructuredFamily == {<<"application/json">>, <<"application/problem+json">>, <<"application/ld+json">>}
TextualFamily == {<<"text/plain">>, <<"text/html">>, <<"text/css">>, <<"text/javascript">>,
                  <<"application/javascript">>, <<"application/ecmascript">>,
                  <<"application/xml">>, <<"text/xml">>}
BinaryFamily == {<<"application/octet-stream">>, <<"application/pdf">>, <<"image/png">>}
FormFamily == {<<"multipart/form-data">>, <<"application/x-www-form-urlencoded">>}
Recognized == StructuredFamily \cup TextualFamily \cup BinaryFamily \cup FormFamily

\* the read operation the rules give a recognized MIME type
FamilyRead(mimeType) ==
    CASE mimeType \in StructuredFamily -> "json"
      [] mimeType \in TextualFamily -> "text"
      [] mimeType \in BinaryFamily -> "blob"
      [] mimeType \in FormFamily -> "formData"

\* a deserialization of a response with content has been started
Reading == cpc # "idle" /\ ~(resp.status = HTTP_NO_CONTENT \/ resp.body = "null")

\* C26: for a response with content whose normalized MIME type is in a
\* recognized family, exactly the read operation of that family is invoked
\* (json for the json family, text for textual types, blob for binary types,
\* formData for form types), and when that read succeeds its value is the body.
C26_ReadByMimeType ==
    (Reading /\ getMimeType(resp) \in Recognized) =>
        LET op == FamilyRead(getMimeType(resp))
        IN /\ reads = <<op>>
           /\ (cpc = "done" /\ readError(op, resp, FALSE) = "") => decoded = Value(op, resp.body)

\* C27: for a response with content and an unrecognized MIME type the body
\* is parsed as structured data and, when that parse fails, returned as raw
\* text; the deserialization raises only when the underlying read fails.
C27_FallbackNeverRaises ==
    (Reading /\ cpc = "done" /\ getMimeType(resp) \notin Recognized) =>
        IF resp.body = "broken" THEN decoded.kind = "TypeError"
        ELSE IF resp.body = "json" THEN decoded = Value("json", resp.body)
        ELSE decoded = Value("text", resp.body)

\* C28: a response with status 204 or without a body stream deserializes to
\* a null body, whatever its content-type: no read operation is invoked and
\* no error is raised.
C28_NoContentIsNull ==
    (cpc # "idle" /\ (resp.status = 204 \/ resp.body = "null")) =>
        /\ cpc = "done"
        /\ decoded = NullBody
        /\ reads = <<>>
        /\ ~resp.bodyUsed

C28_Witness ==
    /\ cpc = "done"
    /\ resp.status = 204
    /\ getMimeType(resp) = <<"application/json">>
    /\ resp.contentType # <<"application/json">>
    /\ decoded = NullBody
    /\ reads = <<>>

\* C29: every setter of the client builder validates its argument when it is
\* called and throws a TypeError for a malformed one, values outside an
\* enumeration included: followRedirects, priority and retry throw exactly
\* when their enumerated argument is not a member, and the builder never
\* holds a value outside the enumerations.
C29_SettersValidate ==
    /\ cbCall.op = "followRedirects" => (cbCall.threw <=> cbCall.args[1] \notin Redirect)
    /\ cbCall.op = "priority" => (cbCall.threw <=> cbCall.args[1] \notin Priority)
    /\ (cbCall.op = "retry" /\ cbCall.args[1] \notin RetryPolicy) => cbCall.threw
    /\ (cbCall.op = "connectTimeout" /\ cbCall.args[1] < 0) => cbCall.threw
    /\ cbuilder.redirectPolicy \in Redirect
    /\ cbuilder.priority \in Priority
    /\ cbuilder.retry.retryPolicy \in RetryPolicy

\* a built request has an address that parsed and a method of the enumeration
ValidRequest(q) ==
    /\ q.req.url # 0
    /\ q.built.url.address \in Addresses
    /\ urlObj[q.req.url].address \in Addresses
    /\ q.req.method \in HttpMethod
    /\ q.built.method = q.req.method

\* C30: every request build() returns has an address and a method, both
\* valid; the method is GET unless a call of method() with a member of the
\* enumeration set another one; while no address has been set build() throws
\* a TypeError and returns no request.
C30_BuiltRequestValid ==
    /\ builder.method = "GET"
    /\ [](\A i \in 1..Len(reqs) : ValidRequest(reqs[i]))
    /\ [](builder.url = 0 => reqs = <<>>)
    /\ [][BuilderBuild =>
             IF builder.url = 0
             THEN threw' /\ reqs' = reqs
             ELSE /\ ~threw'
                  /\ Len(reqs') = Len(reqs) + 1
                  /\ reqs'[Len(reqs')].req.method = builder.method]_vars
    /\ [][builder'.method # builder.method =>
             \E method \in HttpMethod : BuilderMethod(method) /\ builder'.method = method]_vars

C30_Witness ==
    /\ Len(reqs) = 1
    /\ reqs[1].req.method = "GET"
    /\ builder.method = "POST"
    /\ reqs[1].built.url = [address |-> "http://b/", search |-> <<[key |-> "p", val |-> "1"]>>]
    /\ ~threw

\* C31: for every attempt the effective timeout is the request's timeout when
\* it is set, else the client's connect timeout when it is set, else none; a
\* timer is armed for the attempt, with that duration, iff the effective
\* timeout is set.
C31_EffectiveTimeout ==
    \A s \in Sends :
        LET effective == IF request[s].timeout # 0 THEN request[s].timeout
                         ELSE client.connectTimeout
        IN /\ pc[s] \in {"fetching", "reading"} =>
                 IF effective = 0
                 THEN timeoutId[s] = NoTimer
                 ELSE timeoutId[s] = [s |-> s, a |-> calls[s], d |-> effective]
           /\ \A t \in timers : t.s = s => (t.d = effective /\ effective # 0 /\ t.a <= calls[s])
           /\ armed[s] = IF effective = 0 THEN 0 ELSE calls[s]

C31_Witness ==
    /\ pc[1] = "fetching"
    /\ request[1].timeout = MaxTimeout
    /\ client.connectTimeout = MaxTimeout + 1
    /\ timeoutId[1] = [s |-> 1, a |-> 2, d |-> MaxTimeout]
    /\ timeoutId[1] \in timers

\* the classes of error objects
ErrorClasses == {"Error", "TypeError", "DOMException", "HttpException",
                 "HttpTimeoutException", "HttpConnectTimeoutException"}

\* C32: the classifier maps a raised failure to one outcome that depends on
\* the failure alone: a TypeError carrying the fetch-failure signature
\* becomes the connect-timeout error, an error named AbortError the timeout
\* error, any other error object is returned unchanged and a value that is
\* not an error is wrapped in a generic Error; classifying changes nothing
\* of any send: no retry, no delay, no transport invocation.
C32_ClassifierTable ==
    /\ [](Len(outcomes) >= 1 =>
            LET e == failure
                out == outcomes[1]
            IN IF e.cls \notin ErrorClasses
               THEN out.cls = "Error" /\ out.name = "Error"
               ELSE IF e.cls = "TypeError" /\ e.msg \in {"Failed to fetch", "failed to fetch"}
               THEN out = ConnectTimeoutExc
               ELSE IF e.name = "AbortError"
               THEN out = TimeoutExc
               ELSE out = e)
    /\ [][Classify => UNCHANGED <<sendVars, failure>>]_vars

C32_Witness ==
    /\ failure = Err("TypeError", "TypeError", "failed to fetch")
    /\ outcomes = <<ConnectTimeoutExc>>

\* C36: classification is idempotent: classifying a classified error gives
\* the same error, so the second classification in the retry loop changes
\* neither the error raised nor, under any policy, the retry decision.
C36_ClassifyIdempotent ==
    Len(outcomes) = 2 =>
        /\ outcomes[2] = outcomes[1]
        /\ \A policy \in RetryPolicy :
               shouldRetryForError(policy, outcomes[2]) = shouldRetryForError(policy, outcomes[1])

C36_Witness ==
    /\ failure = FetchFailedErr
    /\ outcomes = <<ConnectTimeoutExc, ConnectTimeoutExc>>

RoundTripDone == received.kind \in {"null", "value", "TypeError"}

\* C33 as stated: every body that is absent, a string or a structured object
\* is received back as an equivalent value, and an absent body gives no
\* payload and is received as null.
C33_Original ==
    RoundTripDone =>
        IF sentBody.type = "absent"
        THEN ~wire.present /\ received.kind = "null"
        ELSE received = [kind |-> "value", body |-> sentBody]

\* C33: every non-empty string and every structured object is received back
\* as an equal value under the content type of its type; an absent body and
\* the empty string (the falsy bodies) give no payload and are received as
\* null.
C33_RoundTrip ==
    RoundTripDone =>
        IF sentBody.type = "absent" \/ (sentBody.type = "string" /\ sentBody.text = <<>>)
        THEN ~wire.present /\ received.kind = "null"
        ELSE wire.present /\ received = [kind |-> "value", body |-> sentBody]

C33_Witness ==
    /\ sentBody = Body("object", <<>>, <<<<"a", [t |-> "number", v |-> "1"]>>,
                                         <<"b", [t |-> "string", v |-> "1"]>>>>)
    /\ wire.text = <<Lit("{"), Quoted("a"), Lit(":"), Lit("1"), Lit(","),
                     Quoted("b"), Lit(":"), Quoted("1"), Lit("}")>>
    /\ received = [kind |-> "value", body |-> sentBody]

\* C34: once the client's controller is aborted (by abort() or by a timer) it
\* stays aborted with the same cause; from then on every attempt on the
\* client's shared signal that is in flight or started later ends its send
\* with HttpTimeoutException, and no send without a signal of its own
\* returns a response.
C34_AbortIsPermanent ==
    /\ [][controller.aborted => controller' = controller]_vars
    /\ [][\A s \in Sends :
             (controller.aborted /\ request'[s].present /\ request'[s].signal = "null") =>
                 /\ (pc[s] = "fetching" /\ pc'[s] # "fetching") =>
                        (pc'[s] = "done" /\ result'[s] = Raised(TimeoutExc))
                 /\ (pc[s] = "idle" /\ pc'[s] # "idle") =>
                        (pc'[s] = "fetching" \/ (pc'[s] = "done" /\ result'[s].kind = "error"))
                 /\ result'[s].kind = "response" => result[s].kind = "response"]_vars

C34_Witness ==
    /\ controller = [aborted |-> TRUE, by |-> TimerCause([s |-> 1, a |-> 1])]
    /\ request[1].signal = "null"
    /\ history[1] = <<ErrOutcome(ConnectTimeoutExc, NoCause, 1),
                      ErrOutcome(TimeoutExc, TimerCause([s |-> 1, a |-> 1]), 2)>>
    /\ result[1] = Raised(TimeoutExc)

\* C35: every retry-eligible outcome is followed by exactly one delay before
\* the loop condition is evaluated again, the outcome of the last permitted
\* attempt included: a send that exhausts maxAttempts has made maxAttempts
\* transport invocations and awaited maxAttempts delays before it raises.
C35_DelayAfterEveryEligibleOutcome ==
    \A s \in Sends :
        /\ delays[s] = Cardinality({i \in 1..Len(history[s]) : RetryEligible(history[s][i])})
        /\ (pc[s] = "delaying") => RetryEligible(history[s][Len(history[s])])
        /\ ( /\ Policy # NEVER
             /\ Done(s)
             /\ Len(history[s]) > 0
             /\ \A i \in 1..Len(history[s]) : RetryEligible(history[s][i]) )
           => ( /\ calls[s] = MaxAttempts
                /\ delays[s] = MaxAttempts
                /\ result[s].kind = "error" )

C35_Witness ==
    /\ Exhausted(1)
    /\ MaxAttempts = 3
    /\ calls[1] = 3
    /\ delays[1] = 3
    /\ result[1] = Raised(MaxRetryErr)

\* what send does with a single attempt outcome under policy Never
NeverResult(o) == IF o.kind = "resp" THEN Returned(o.status, o.attempt) ELSE Raised(o.err)

\* C37 as stated: under a policy other than Never with maxAttempts = 1 a send
\* does what it does under Never for the same attempt outcome: one attempt,
\* no delay, the response returned or the classified error raised.
C37_Original ==
    \A s \in Sends :
        /\ (Policy = NEVER /\ Done(s) /\ request[s].present) =>
               (Len(history[s]) = 1 /\ delays[s] = 0 /\ result[s] = NeverResult(history[s][1]))
        /\ (Policy # NEVER /\ MaxAttempts = 1 /\ Done(s) /\ request[s].present) =>
               (Len(history[s]) = 1 /\ delays[s] = 0 /\ result[s] = NeverResult(history[s][1]))

\* C37: under a policy other than Never with maxAttempts = 1 a send makes one
\* attempt, as under Never.  When the outcome is not retry-eligible it does
\* what Never does: no delay, the response returned or the classified error
\* raised.  When the outcome is retry-eligible it awaits one delay and then
\* raises: the classified error of a failed attempt (the error Never raises),
\* or the generic max-attempts error for a response (which Never returns).
C37_SingleAttemptLikeNever ==
    \A s \in Sends :
        /\ (Policy = NEVER /\ Done(s) /\ request[s].present) =>
               (Len(history[s]) = 1 /\ delays[s] = 0 /\ result[s] = NeverResult(history[s][1]))
        /\ (Policy # NEVER /\ MaxAttempts = 1 /\ Done(s) /\ request[s].present) =>
               /\ Len(history[s]) = 1
               /\ calls[s] <= 1
               /\ IF RetryEligible(history[s][1])
                  THEN /\ delays[s] = 1
                       /\ result[s] = Raised(IF history[s][1].kind = "err" THEN history[s][1].err
                                             ELSE MaxRetryErr)
                  ELSE /\ delays[s] = 0
                       /\ result[s] = NeverResult(history[s][1])

C37_Witness ==
    /\ Policy = ALWAYS /\ MaxAttempts = 1
    /\ Done(1)
    /\ history[1] = <<RespOutcome(500, 1)>>
    /\ delays[1] = 1
    /\ result[1] = Raised(MaxRetryErr)
\* a call of one of the request builder's setters
SetterCall ==
    \/ \E u \in UrlInputs \cup {NullUrl, BadUrl} : BuilderUrl(u)
    \/ \E method \in MethodInputs : BuilderMethod(method)
    \/ \E name \in HeaderNames \cup {""}, value \in HeaderValues \cup {""} : BuilderHeader(name, value)
    \/ \E record \in HeaderRecords : BuilderHeaders(record)
    \/ \E name \in ParamNames \cup {""}, value \in ParamValues \cup {""} : BuilderQueryParam(name, value)
    \/ \E record \in ParamRecords : BuilderQueryParams(record)
    \/ \E duration \in {-1, 0, MaxTimeout} : BuilderTimeout(duration)

\* C38: a request-builder setter that raises TypeError leaves the builder
\* as it was: its fields and the objects they refer to, which are what a later
\* build() makes the request from, are those of before the rejected call; in
\* particular headers() and queryParams() apply all entries or none.
C38_RejectedSetterChangesNothing ==
    [][(SetterCall /\ threw') => UNCHANGED <<builder, headersObj, paramsObj, urlObj, reqs>>]_vars

\* C39: the query parameters of the built request do not depend on the order
\* of url() and queryParam()/queryParams(): the parameters the dedicated
\* methods added before the builder's first url() call are still among the
\* builder's query parameters, from which build() makes the request, after it.
C39_ParamsSurviveUrl ==
    [][((\E u \in UrlInputs : BuilderUrl(u)) /\ builder.queryParams = 0 /\ ~threw') =>
          \A i \in 1..Len(paramsObj[0]) :
              \E j \in 1..Len(paramsObj'[builder'.queryParams]) :
                  paramsObj'[builder'.queryParams][j] = paramsObj[0][i]]_vars

====
